---- MODULE Spec2Model ----
(***************************************************************************)
(* memflow-pointer-debug: the derive macro PointerDerefDebugPrint          *)
(* (derive/src/lib.rs) and the PointerPrint entry points (src/lib.rs).     *)
(*                                                                         *)
(* The macro is modelled as a pure function from a struct definition to    *)
(* the list of per-field code fragments; the generated procedure           *)
(* pointer_debug_internal is modelled as a machine with an explicit call   *)
(* stack.  Standard output is modelled as the sequence of finished lines   *)
(* plus the unfinished current line.                                       *)
(***************************************************************************)
EXTENDS Integers, Sequences, FiniteSets, TLC

(* ------------------------------ bounds -------------------------------- *)

\* largest max_depth argument enumerated for pointer_print_with_depth
MaxDepthArg == 6

\* longest pointer chain held by the modelled memory
ChainLen == 6

\* a max_depth far larger than any graph of the model
BigDepth == 40

\* capacity of the modelled output (finished lines); no traversal of the
\* program reaches it
MaxOut == 48

(* --------------------------- program constants ------------------------ *)

\* src/src/lib.rs:79  self.pointer_print_with_depth(mem, 5)
DefaultMaxDepth == 5

(* ------------------------------ strings ------------------------------- *)

\* identifiers are kept as sequences of characters so that str::contains
\* can be computed; Str renders them
RECURSIVE Str(_)
Str(cs) == IF cs = <<>> THEN "" ELSE Head(cs) \o Str(Tail(cs))

\* str::contains(pat)
contains(s, pat) ==
    \E i \in 0..(Len(s) - Len(pat)) : SubSeq(s, i + 1, i + Len(pat)) = pat

PadMarker == <<"_", "p", "a", "d">>
PointerMarker == <<"P", "o", "i", "n", "t", "e", "r">>

\* "  ".repeat(n)
RECURSIVE repeat(_)
repeat(n) == IF n = 0 THEN "" ELSE "  " \o repeat(n - 1)

Digit(d) ==
    CASE d = 0 -> "0" [] d = 1 -> "1" [] d = 2 -> "2" [] d = 3 -> "3"
      [] d = 4 -> "4" [] d = 5 -> "5" [] d = 6 -> "6" [] d = 7 -> "7"
      [] d = 8 -> "8" [] d = 9 -> "9" [] d = 10 -> "a" [] d = 11 -> "b"
      [] d = 12 -> "c" [] d = 13 -> "d" [] d = 14 -> "e" [] d = 15 -> "f"

RECURSIVE Radix(_, _)
Radix(n, b) == IF n < b THEN Digit(n) ELSE Radix(n \div b, b) \o Digit(n % b)

\* {:#x} of a u64
FmtHex(n) == "0x" \o Radix(n, 16)

\* {:?} of an unsigned integer
FmtDebug(n) == Radix(n, 10)

(* ------------------------- struct definitions ------------------------- *)

TyPath(segs) == [kind |-> "Path", segs |-> segs]
TyOther == [kind |-> "Other", segs |-> <<>>]

\* struct Node { id: u32, next: Pointer<Node> }
NodeStruct ==
    [name |-> "Node",
     fields |-> <<
       [ident |-> <<"i", "d">>, ty |-> TyPath(<< <<"u", "3", "2">> >>)],
       [ident |-> <<"n", "e", "x", "t">>,
        ty |-> TyPath(<< <<"P", "o", "i", "n", "t", "e", "r">> >>)] >>]

\* struct Tree { tag: u32, left: Pointer64<Tree>, _pad0: Pointer64<Tree>,
\*               right: types::Pointer32<Tree>, x_pad: u32, flags: (u32) }
TreeStruct ==
    [name |-> "Tree",
     fields |-> <<
       [ident |-> <<"t", "a", "g">>, ty |-> TyPath(<< <<"u", "3", "2">> >>)],
       [ident |-> <<"l", "e", "f", "t">>,
        ty |-> TyPath(<< <<"P", "o", "i", "n", "t", "e", "r", "6", "4">> >>)],
       [ident |-> <<"_", "p", "a", "d", "0">>,
        ty |-> TyPath(<< <<"P", "o", "i", "n", "t", "e", "r", "6", "4">> >>)],
       [ident |-> <<"r", "i", "g", "h", "t">>,
        ty |-> TyPath(<< <<"t", "y", "p", "e", "s">>,
                         <<"P", "o", "i", "n", "t", "e", "r", "3", "2">> >>)],
       [ident |-> <<"x", "_", "p", "a", "d">>,
        ty |-> TyPath(<< <<"u", "3", "2">> >>)],
       [ident |-> <<"f", "l", "a", "g", "s">>, ty |-> TyOther] >>]

StructOf(layout) == IF layout = "Node" THEN NodeStruct ELSE TreeStruct

(* ---------------------------- the derive macro ------------------------ *)

\* a padding test on the start of the name only
is_padding_prefix(field) ==
    Len(field.ident) >= Len(PadMarker)
    /\ SubSeq(field.ident, 1, Len(PadMarker)) = PadMarker

\* field_name_str.contains("_pad")
is_padding(field) == contains(field.ident, PadMarker)

\* a pointer test that wants a segment to be exactly "Pointer"
is_pointer_exact(field) ==
    /\ field.ty.kind = "Path"
    /\ \E k \in 1..Len(field.ty.segs) : field.ty.segs[k] = PointerMarker

\* Type::Path => any segment's ident contains "Pointer"; _ => false
is_pointer(field) ==
    /\ field.ty.kind = "Path"
    /\ \E k \in 1..Len(field.ty.segs) : contains(field.ty.segs[k], PointerMarker)

\* Type::Path => last segment's ident; otherwise "Unknown"
field_type(field) ==
    IF field.ty.kind = "Path" /\ Len(field.ty.segs) > 0
    THEN Str(field.ty.segs[Len(field.ty.segs)])
    ELSE "Unknown"

\* the code fragment the macro emits for the i-th declared field
FieldCode(struct, i) ==
    LET field == struct.fields[i] IN
    [kind |-> IF is_padding(field) THEN "empty"
              ELSE IF is_pointer(field) THEN "pointer" ELSE "plain",
     field_name_str |-> Str(field.ident),
     field_type |-> field_type(field),
     fld |-> i]

\* #(#field_debugs)* : the fragments in declaration order; an empty
\* fragment contributes no code
field_debugs(struct) ==
    SelectSeq([i \in 1..Len(struct.fields) |-> FieldCode(struct, i)],
              LAMBDA c : c.kind # "empty")

(* ------------------------- values and memory -------------------------- *)

\* addresses are multiples of 0x1000
Addr(k) == k * 4096

\* the address held by the padding pointer field of every Tree
PadAddr == Addr(15)

SmallAddrs == {Addr(1), Addr(2)}
AllAddrs == {Addr(k) : k \in 1..ChainLen} \cup SmallAddrs \cup {PadAddr}

\* a value of struct Node / struct Tree: one integer per declared field
\* (a plain value, or the address held by a pointer field)
NodeVal(id, next) == [layout |-> "Node", vals |-> <<id, next>>]
TreeVal(left, right) ==
    [layout |-> "Tree", vals |-> <<7, left, PadAddr, right, 9, 3>>]

\* the reader's answer Err(e); e is rendered by Display
ReadError == [layout |-> "ReadError", vals |-> <<>>]
ErrorText == "read failed"

IsOk(answer) == answer.layout # "ReadError"

\* the Node stored at Addr(k) has id k + 1; a root that is not a copy of
\* a stored Node has id 1
IdAt(a) == (a \div 4096) + 1

Extend(m) == [a \in AllAddrs |-> IF a \in DOMAIN m THEN m[a] ELSE ReadError]

TreeVals == {TreeVal(l, r) : l \in SmallAddrs, r \in SmallAddrs}

\* the Tree roots: two distinct pointees, or the same pointee twice
TreeRoots == {TreeVal(Addr(1), Addr(2)), TreeVal(Addr(2), Addr(2))}

SmallTreeMems == {Extend(m) : m \in [SmallAddrs -> TreeVals \cup {ReadError}]}

SmallNodeMems ==
    {Extend(m) : m \in
        {f \in [SmallAddrs -> {NodeVal(i, n) : i \in 2..3, n \in SmallAddrs}
                               \cup {ReadError}] :
            \A a \in SmallAddrs : IsOk(f[a]) => f[a].vals[1] = IdAt(a)}}

\* Addr(1) -> Addr(2) -> ... -> Addr(len); the last cell is unreadable,
\* points back to Addr(1), or points to itself
ChainMem(len, tail) ==
    [a \in AllAddrs |->
        LET k == a \div 4096 IN
        IF k < len THEN NodeVal(k + 1, Addr(k + 1))
        ELSE IF k = len /\ tail = "back" THEN NodeVal(k + 1, Addr(1))
        ELSE IF k = len /\ tail = "self" THEN NodeVal(k + 1, Addr(k))
        ELSE ReadError]

ChainMems == {ChainMem(len, tail) : len \in 1..ChainLen,
                                    tail \in {"err", "back", "self"}}

\* roots that are copies of a stored value (the root is resident there)
Resident(m) == {m[a] : a \in {b \in SmallAddrs : IsOk(m[b])}}

(* ------------------------------- state -------------------------------- *)

VARIABLES
    mem,                \* the memory reader: address -> value or ReadError
    root,               \* the value print is called on
    entry,              \* entry point of the current / last top-level call
    arg,                \* max_depth argument given by the caller (or NoArg)
    max_depth,          \* max_depth threaded through the recursion
    visited_addresses,  \* the HashSet<u64> of the current traversal
    stack,              \* active invocations of pointer_debug_internal
    out,                \* finished lines of standard output
    cur,                \* the unfinished line (print! without newline)
    log,                \* history: the operations of the current call
    ninv,               \* history: invocations started in the current call
    prev                \* history: the previous top-level call

vars == <<mem, root, entry, arg, max_depth, visited_addresses, stack,
          out, cur, log, ninv, prev>>

NoArg == 0 - 1
NoCall == [entry |-> "none", arg |-> NoArg, max_depth |-> 0,
           out |-> <<>>, reads |-> <<>>]

DepthArgs == (0..MaxDepthArg) \cup {BigDepth}

Top == stack[Len(stack)]
Pop == SubSeq(stack, 1, Len(stack) - 1)
Code(frame) == field_debugs(StructOf(frame.self.layout))
Idle == stack = <<>>
Returned == Idle /\ entry # "none"

\* history helpers
Ops(kinds) == SelectSeq(log, LAMBDA e : e.op \in kinds)
Reads == [i \in 1..Len(Ops({"read_ok", "read_err"})) |->
            Ops({"read_ok", "read_err"})[i].addr]

\* one operation of invocation frame.inv: the field and address it is
\* about, the visited set after it, the text it handed to print!/println!
\* and the invocation it started
Entry(op, frame, name, address, vis, text, callee) ==
    [op |-> op, inv |-> frame.inv, depth |-> frame.depth,
     field |-> name, addr |-> address, vis |-> vis, text |-> text,
     callee |-> callee]

Init ==
    /\ \/ /\ mem \in SmallTreeMems
          /\ root \in TreeRoots
       \/ /\ mem \in SmallNodeMems
          /\ root \in {NodeVal(1, n) : n \in SmallAddrs} \cup Resident(mem)
       \/ /\ mem \in ChainMems
          /\ root = NodeVal(1, Addr(1))
    /\ entry = "none"
    /\ arg = NoArg
    /\ max_depth = 0
    /\ visited_addresses = {}
    /\ stack = <<>>
    /\ out = <<>>
    /\ cur = ""
    /\ log = <<>>
    /\ ninv = 0
    /\ prev = NoCall

(* --------------------------- entry points ----------------------------- *)

\* a set that outlives the call
KeepHashSet(old) == old

\* let mut visited_addresses = HashSet::new()
NewHashSet(old) == {}

\* pointer_print_with_depth: fresh visited set, then
\* self.pointer_debug_internal(mem, 0, max_depth, &mut visited_addresses)
Traverse(e, a, d) ==
    /\ Idle
    /\ prev' = IF entry = "none" THEN NoCall
               ELSE [entry |-> entry, arg |-> arg, max_depth |-> max_depth,
                     out |-> out, reads |-> Reads]
    /\ entry' = e
    /\ arg' = a
    /\ max_depth' = d
    /\ visited_addresses' = NewHashSet(visited_addresses)
    /\ stack' = <<[self |-> root, depth |-> 0, pc |-> "enter",
                   idx |-> 1, inv |-> 1]>>
    /\ out' = <<>>
    /\ cur' = ""
    /\ log' = <<>>
    /\ ninv' = 1
    /\ UNCHANGED <<mem, root>>

\* The max_depth a call asks for: its argument, or the documented default.
Documented(e, a) == IF a = NoArg THEN DefaultMaxDepth ELSE a

\* The modelled client calls again only asking for the max_depth of its
\* first call (through any entry point): the calls that are compared with
\* each other are calls with equal max_depth.
Again(d) == entry = "none" \/ d = Documented(entry, arg)

pointer_print_with_depth ==
    \E d \in DepthArgs :
        /\ Again(d)
        /\ Traverse("pointer_print_with_depth", d, d)

\* a default of 4
PointerPrintBody4(e) == Traverse(e, NoArg, 4)

\* self.pointer_print_with_depth(mem, 5)
PointerPrintBody(e) == Traverse(e, NoArg, DefaultMaxDepth)

pointer_print ==
    /\ Again(DefaultMaxDepth)
    /\ PointerPrintBody("pointer_print")

\* value.pointer_print(mem)
print_with_pointer_reading ==
    /\ Again(DefaultMaxDepth)
    /\ PointerPrintBody("print_with_pointer_reading")

(* ----------------------- pointer_debug_internal ----------------------- *)

\* a guard that lets depth = max_depth through
depth_guard_gt(depth, md) == depth > md

\* if depth >= max_depth
depth_guard(depth, md) == depth >= md

\* the guard returns: nothing is printed for this invocation
GuardReturn ==
    /\ ~Idle
    /\ Top.pc = "enter"
    /\ depth_guard(Top.depth, max_depth)
    /\ stack' = Pop
    /\ log' = Append(log, Entry("guard", Top, "", 0, visited_addresses, "", 0))
    /\ UNCHANGED <<mem, root, entry, arg, max_depth, visited_addresses,
                   out, cur, ninv, prev>>

\* the text of the header line: inline after the arrow at depth > 0
HeaderText(layout, depth) ==
    IF depth > 0 THEN " " \o StructOf(layout).name
    ELSE repeat(depth) \o StructOf(layout).name \o " {"

Header ==
    /\ ~Idle
    /\ Top.pc = "enter"
    /\ ~depth_guard(Top.depth, max_depth)
    /\ Len(out) < MaxOut
    /\ out' = Append(out, cur \o HeaderText(Top.self.layout, Top.depth))
    /\ cur' = ""
    /\ stack' = [stack EXCEPT ![Len(stack)].pc = "fields"]
    /\ log' = Append(log, Entry("enter", Top, "", 0, visited_addresses,
                                HeaderText(Top.self.layout, Top.depth), 0))
    /\ UNCHANGED <<mem, root, entry, arg, max_depth, visited_addresses,
                   ninv, prev>>

\* "{}  {}: {} = {:?}", indent, name, type, self.field
PlainText(frame) ==
    LET c == Code(frame)[frame.idx] IN
    repeat(frame.depth) \o "  " \o c.field_name_str \o ": " \o c.field_type
        \o " = " \o FmtDebug(frame.self.vals[c.fld])

\* println!("{}  {}: {} = {:?}", indent, name, type, self.field)
PlainField ==
    /\ ~Idle
    /\ Top.pc = "fields"
    /\ Top.idx <= Len(Code(Top))
    /\ Code(Top)[Top.idx].kind = "plain"
    /\ Len(out) < MaxOut
    /\ out' = Append(out, cur \o PlainText(Top))
    /\ log' = Append(log, Entry("plain", Top, Code(Top)[Top.idx].field_name_str,
                                0, visited_addresses, PlainText(Top), 0))
    /\ cur' = ""
    /\ stack' = [stack EXCEPT ![Len(stack)].idx = @ + 1]
    /\ UNCHANGED <<mem, root, entry, arg, max_depth, visited_addresses,
                   ninv, prev>>

\* let address = self.field.address().to_umem()
AddressOf(frame) == frame.self.vals[Code(frame)[frame.idx].fld]

\* a visited-set test that never finds the address
is_visited_never(address, visited) == FALSE

\* visited_addresses.contains(&address)
is_visited(address, visited) == address \in visited

\* an insert that leaves the set as it was
insert_nothing(visited, address) == visited

\* visited_addresses.insert(address)
insert(visited, address) == visited \cup {address}

\* if !visited_addresses.contains(&address) { visited_addresses.insert(address)
InsertAddress ==
    /\ ~Idle
    /\ Top.pc = "fields"
    /\ Top.idx <= Len(Code(Top))
    /\ Code(Top)[Top.idx].kind = "pointer"
    /\ ~is_visited(AddressOf(Top), visited_addresses)
    /\ visited_addresses' = insert(visited_addresses, AddressOf(Top))
    /\ stack' = [stack EXCEPT ![Len(stack)].pc = "read"]
    /\ log' = Append(log, Entry("insert", Top, Code(Top)[Top.idx].field_name_str,
                                AddressOf(Top), visited_addresses', "", 0))
    /\ UNCHANGED <<mem, root, entry, arg, max_depth, out, cur, ninv, prev>>

\* a notice that prints the address with {} (decimal)
VisitedTextDecimal(frame) ==
    repeat(frame.depth) \o "  " \o Code(frame)[frame.idx].field_name_str
        \o " → Already visited address " \o FmtDebug(AddressOf(frame))

\* "{}  {} -> Already visited address {:#x}", indent, name, address
\* (the arrow is U+2192)
VisitedText(frame) ==
    repeat(frame.depth) \o "  " \o Code(frame)[frame.idx].field_name_str
        \o " → Already visited address " \o FmtHex(AddressOf(frame))

\* else { println!("{}  {} -> Already visited address {:#x}", ...) }
AlreadyVisited ==
    /\ ~Idle
    /\ Top.pc = "fields"
    /\ Top.idx <= Len(Code(Top))
    /\ Code(Top)[Top.idx].kind = "pointer"
    /\ is_visited(AddressOf(Top), visited_addresses)
    /\ Len(out) < MaxOut
    /\ out' = Append(out, cur \o VisitedText(Top))
    /\ cur' = ""
    /\ stack' = [stack EXCEPT ![Len(stack)].idx = @ + 1]
    /\ log' = Append(log, Entry("visited", Top,
                                Code(Top)[Top.idx].field_name_str,
                                AddressOf(Top), visited_addresses,
                                VisitedText(Top), 0))
    /\ UNCHANGED <<mem, root, entry, arg, max_depth, visited_addresses,
                   ninv, prev>>

\* the caller's frame once the field at idx has been dealt with
FieldDone(frame) == [frame EXCEPT !.pc = "fields", !.idx = @ + 1]

\* a recursive call that passes depth on as it is
CalleeSameDepth(value, depth, inv) ==
    [self |-> value, depth |-> depth, pc |-> "enter", idx |-> 1, inv |-> inv]

\* the callee's frame: value.pointer_debug_internal(mem, depth + 1, ...)
Callee(value, depth, inv) ==
    [self |-> value, depth |-> depth + 1, pc |-> "enter", idx |-> 1,
     inv |-> inv]

\* "{}  {}->", indent, name
ArrowText(frame) ==
    repeat(frame.depth) \o "  " \o Code(frame)[frame.idx].field_name_str \o "->"

\* match self.field.read(mem) { Ok(value) => print!("{}  {}->", ...); recurse
ReadOk ==
    /\ ~Idle
    /\ Top.pc = "read"
    /\ IsOk(mem[AddressOf(Top)])
    /\ cur' = cur \o ArrowText(Top)
    /\ stack' = Append([stack EXCEPT ![Len(stack)] = FieldDone(Top)],
                       Callee(mem[AddressOf(Top)], Top.depth, ninv + 1))
    /\ ninv' = ninv + 1
    /\ log' = Append(log, Entry("read_ok", Top,
                                Code(Top)[Top.idx].field_name_str,
                                AddressOf(Top), visited_addresses,
                                ArrowText(Top), ninv + 1))
    /\ UNCHANGED <<mem, root, entry, arg, max_depth, visited_addresses,
                   out, prev>>

\* "{}  {} -> Error reading: {}", indent, name, e  (the arrow is U+2192)
ErrText(frame) ==
    repeat(frame.depth) \o "  " \o Code(frame)[frame.idx].field_name_str
        \o " → Error reading: " \o ErrorText

\* an Err arm that leaves the invocation at once
AfterErrorReturn(stk) == SubSeq(stk, 1, Len(stk) - 1)

\* the stack after the Err arm: the field loop goes on
AfterError(stk) == [stk EXCEPT ![Len(stk)] = FieldDone(stk[Len(stk)])]

\* Err(e) => println!("{}  {} -> Error reading: {}", indent, name, e)
ReadErr ==
    /\ ~Idle
    /\ Top.pc = "read"
    /\ ~IsOk(mem[AddressOf(Top)])
    /\ Len(out) < MaxOut
    /\ out' = Append(out, cur \o ErrText(Top))
    /\ cur' = ""
    /\ stack' = AfterError(stack)
    /\ log' = Append(log, Entry("read_err", Top,
                                Code(Top)[Top.idx].field_name_str,
                                AddressOf(Top), visited_addresses,
                                ErrText(Top), 0))
    /\ UNCHANGED <<mem, root, entry, arg, max_depth, visited_addresses,
                   ninv, prev>>

\* println!("{}}}", indent), then return
Close ==
    /\ ~Idle
    /\ Top.pc = "fields"
    /\ Top.idx > Len(Code(Top))
    /\ Len(out) < MaxOut
    /\ out' = Append(out, cur \o repeat(Top.depth) \o "}")
    /\ cur' = ""
    /\ stack' = Pop
    /\ log' = Append(log, Entry("close", Top, "", 0, visited_addresses,
                                repeat(Top.depth) \o "}", 0))
    /\ UNCHANGED <<mem, root, entry, arg, max_depth, visited_addresses,
                   ninv, prev>>

Step ==
    \/ GuardReturn
    \/ Header
    \/ PlainField
    \/ InsertAddress
    \/ AlreadyVisited
    \/ ReadOk
    \/ ReadErr
    \/ Close

Next ==
    \/ pointer_print
    \/ pointer_print_with_depth
    \/ print_with_pointer_reading
    \/ Step

Spec == Init /\ [][Next]_vars

\* the traversal is synchronous: once called it runs until it returns
FairSpec == Spec /\ WF_vars(Step)

TypeOK ==
    /\ visited_addresses \subseteq AllAddrs
    /\ Len(out) < MaxOut
    /\ Len(stack) <= ChainLen + 2

(* ------------------------------ properties ---------------------------- *)

\* C1 (termination): under FairSpec every top-level call, on every pointer
\* graph of the model (acyclic, cyclic, self-referential), with every
\* reader answer (value or read error) and every max_depth (0, small, or far
\* above the size of the graph), eventually returns; its output stays
\* below the capacity MaxOut, so it is finite.
Termination == (~Idle) ~> (Returned /\ Len(out) < MaxOut)

\* a call with a huge max_depth has returned from a graph with a cycle: a
\* stored value was read and a pointer back to a visited address was cut
TerminationWitness ==
    /\ Returned
    /\ max_depth = BigDepth
    /\ Len(Ops({"read_ok"})) >= 2
    /\ Len(Ops({"visited"})) >= 1

(* what the struct definitions declare, written out field by field *)

\* the fields that are printed, with the path each is to take
Declared(layout) ==
    IF layout = "Node"
    THEN << <<"id", "plain">>, <<"next", "pointer">> >>
    ELSE << <<"tag", "plain">>, <<"left", "pointer">>,
            <<"right", "pointer">>, <<"flags", "plain">> >>

\* the padding fields
PaddingNames == {"_pad0", "x_pad"}

\* the pointer fields of the root: name and address held
RootPointers ==
    IF root.layout = "Node" THEN << <<"next", root.vals[2]>> >>
    ELSE << <<"left", root.vals[2]>>, <<"right", root.vals[4]>> >>

\* the operations of invocation k that are the outcome of one field
Outcomes(k) ==
    SelectSeq(log, LAMBDA e : e.inv = k /\ e.op \in {"plain", "insert", "visited"})

PathOf(e) == IF e.op = "plain" THEN "plain" ELSE "pointer"

Closed(k) == \E i \in 1..Len(log) : log[i].op = "close" /\ log[i].inv = k

\* how often the fields of the value stored at address a were printed
Visits(a) ==
    Cardinality({i \in 1..Len(log) :
        /\ log[i].op = "read_ok"
        /\ log[i].addr = a
        /\ \E j \in 1..Len(log) : log[j].op = "enter" /\ log[j].inv = log[i].callee})

\* C2 (cycle safety, as claimed): A is the root and is stored at a, A.next
\* holds b, the Node B stored at b points back to a, and max_depth >= 2.
\* Then the returned traversal has printed B's fields exactly once, has
\* printed an "already visited" notice for B's back-reference to a, and has
\* not printed A's fields a second time.
CycleSafety ==
    \A a \in SmallAddrs, b \in SmallAddrs :
        ( /\ Returned
          /\ max_depth >= 2
          /\ root.layout = "Node"
          /\ a # b
          /\ root = mem[a]
          /\ root.vals[2] = b
          /\ IsOk(mem[b])
          /\ mem[b].vals[2] = a )
        => /\ Visits(b) = 1
           /\ \E i \in 1..Len(log) :
                 /\ log[i].op = "visited"
                 /\ log[i].addr = a
                 /\ log[i].depth = 1
           /\ Visits(a) = 0

\* C3 (depth ceiling at zero, as claimed): a returned traversal with
\* max_depth = 0 has printed the root's header and the closing delimiter,
\* and no field line.
DepthZeroPrintsHeader ==
    (Returned /\ max_depth = 0)
        => out = <<StructOf(root.layout).name \o " {", "}">>

\* C3 and C2 have their first reachable violations at max_depth = 0 and at
\* max_depth = 2.

\* C4 (depth ceiling at one): in a returned traversal with max_depth = 1
\* the pointer-follow logic has been applied to each pointer field of the
\* root, once and in declaration order, at depth 0: every address not
\* visited before was read, every successful read printed the field's arrow
\* and started the pointee's invocation; and every pointee's invocation
\* returned at the depth guard, so that no field of a pointee was printed,
\* looked up, read or followed.
DepthOneFollowsOneLevel ==
    (Returned /\ max_depth = 1) =>
        LET first == SelectSeq(log, LAMBDA e : e.op \in {"insert", "visited"})
            reads == Ops({"read_ok", "read_err"})
            ins == Ops({"insert"})
        IN  /\ Len(first) = Len(RootPointers)
            /\ \A i \in 1..Len(first) :
                  /\ first[i].depth = 0
                  /\ first[i].field = RootPointers[i][1]
                  /\ first[i].addr = RootPointers[i][2]
            /\ Len(reads) = Len(ins)
            /\ \A i \in 1..Len(reads) :
                  /\ reads[i].addr = ins[i].addr
                  /\ reads[i].field = ins[i].field
                  /\ reads[i].depth = 0
                  /\ (reads[i].op = "read_ok") = IsOk(mem[reads[i].addr])
                  /\ reads[i].op = "read_ok" =>
                        /\ reads[i].text = "  " \o reads[i].field \o "->"
                        /\ \E j \in 1..Len(log) :
                              /\ log[j].inv = reads[i].callee
                              /\ log[j].op = "guard"
                              /\ log[j].depth = 1
            /\ \A j \in 1..Len(log) : log[j].depth >= 1 => log[j].op = "guard"

\* with max_depth = 1 a pointee that has pointer fields of its own was read
\* and its invocation was cut, and a second root pointer was dealt with too
DepthOneWitness ==
    /\ Returned
    /\ max_depth = 1
    /\ root.layout = "Tree"
    /\ Len(Ops({"read_ok"})) = 2
    /\ Len(Ops({"guard"})) = 2

\* C5 (error isolation): whenever the read of a pointer field has failed in
\* an invocation and the traversal has returned, that invocation has dealt
\* with every printed field of its record, before and after the failing one,
\* in declaration order and each on its own path (plain line, or pointer
\* lookup), and has then printed its closing delimiter.
ErrorIsolation ==
    Returned =>
        \A i \in 1..Len(log) :
            log[i].op = "read_err" =>
                LET k == log[i].inv
                    decl == Declared(root.layout)
                IN  /\ Len(Outcomes(k)) = Len(decl)
                    /\ \A n \in 1..Len(decl) :
                          /\ Outcomes(k)[n].field = decl[n][1]
                          /\ PathOf(Outcomes(k)[n]) = decl[n][2]
                    /\ Closed(k)
                    /\ \A j \in 1..Len(log) :
                          (log[j].inv = k /\ log[j].op = "insert") =>
                              \E r \in (j + 1)..Len(log) :
                                  /\ log[r].inv = k
                                  /\ log[r].field = log[j].field
                                  /\ log[r].op \in {"read_ok", "read_err"}

\* the read of left failed, and the later sibling right was still read and
\* followed, and the last plain sibling printed
ErrorIsolationWitness ==
    /\ Returned
    /\ \E i \in 1..Len(log), j \in 1..Len(log), n \in 1..Len(log) :
          /\ i < j /\ j < n
          /\ log[i].op = "read_err" /\ log[i].field = "left"
          /\ log[j].op = "read_ok" /\ log[j].field = "right"
          /\ log[j].inv = log[i].inv
          /\ log[n].op = "plain" /\ log[n].field = "flags"
          /\ log[n].inv = log[i].inv

\* the situation of the self-cycle example
SelfCycleExample ==
    /\ root.layout = "Node"
    /\ root.vals[2] = Addr(1)
    /\ mem[Addr(1)] = NodeVal(2, Addr(1))
    /\ max_depth = 5

\* C6 (self-cycle example): the returned traversal has printed exactly the
\* root header, the root's id line, the next-> header, the nested id = 2
\* line, the nested next line "Already visited address 0x1000" and two
\* closing delimiters, and the reader was invoked once.
SelfCycleOutput ==
    (Returned /\ SelfCycleExample) =>
        /\ out = << "Node {",
                    CASE root.vals[1] = 1 -> "  id: u32 = 1"
                      [] root.vals[1] = 2 -> "  id: u32 = 2"
                      [] root.vals[1] = 3 -> "  id: u32 = 3",
                    "  next-> Node",
                    "    id: u32 = 2",
                    "    next → Already visited address 0x1000",
                    "  }",
                    "}" >>
        /\ Reads = <<4096>>

\* the example has run to its end with the root resident at 0x1000
SelfCycleWitness ==
    /\ Returned
    /\ SelfCycleExample
    /\ root = mem[Addr(1)]
    /\ Len(out) = 7

\* C7 (idempotence across calls): a call that follows another call on the
\* same data with the same max_depth has, when it returns, printed the same
\* lines and made the same reads as the call before it; and every call
\* starts its root invocation with an empty visited set.
Idempotence ==
    /\ (Returned /\ prev # NoCall /\ prev.max_depth = max_depth) =>
            /\ out = prev.out
            /\ Reads = prev.reads
    /\ (Len(stack) = 1 /\ Top.depth = 0 /\ Top.pc = "enter") =>
            visited_addresses = {}

\* the second of two calls has returned; both followed pointers and both
\* cut a revisit
IdempotenceWitness ==
    /\ Returned
    /\ prev # NoCall
    /\ prev.max_depth = max_depth
    /\ Len(prev.reads) >= 2
    /\ Len(Ops({"visited"})) >= 1
    /\ Len(out) >= 6

\* C8 (padding exclusion): no operation of a traversal is about a padding
\* field: no line is printed for one, and the address held by the padding
\* field of pointer type is never looked up, inserted into the visited set
\* or read.
PaddingExclusion ==
    /\ \A i \in 1..Len(log) : log[i].field \notin PaddingNames
    /\ \A i \in 1..Len(log) : log[i].addr # PadAddr
    /\ PadAddr \notin visited_addresses
    /\ \A k \in 1..ninv :
          Closed(k) => Len(Outcomes(k)) = Len(Declared(root.layout))

\* a Tree (two padding fields, one of pointer type) has been printed
\* together with a pointee Tree
PaddingWitness ==
    /\ Returned
    /\ root.layout = "Tree"
    /\ Closed(1) /\ Closed(2)
    /\ Len(Outcomes(2)) = 4

\* C9 (plain vs pointer classification): every printed field of every
\* invocation takes the path its declared type asks for: a field of a
\* recognized pointer type is looked up in the visited set (then read or
\* reported as visited), every other field is printed as one plain line
\* that leaves the visited set as it was; no operation is ever on the
\* other path.
Classification ==
    /\ \A i \in 1..Len(log) :
          log[i].op \in {"plain", "insert", "visited", "read_ok", "read_err"} =>
              \E n \in 1..Len(Declared(root.layout)) :
                  /\ Declared(root.layout)[n][1] = log[i].field
                  /\ Declared(root.layout)[n][2] = PathOf(log[i])
    /\ \A i \in 2..Len(log) :
          log[i].op = "plain" => (log[i].vis = log[i - 1].vis /\ log[i].addr = 0)
    /\ \A k \in 1..ninv :
          \A n \in 1..Len(Outcomes(k)) :
              /\ n <= Len(Declared(root.layout))
              /\ Outcomes(k)[n].field = Declared(root.layout)[n][1]
              /\ PathOf(Outcomes(k)[n]) = Declared(root.layout)[n][2]

\* a Tree has been printed: Pointer64 and types::Pointer32 fields followed,
\* u32 and (u32) fields printed plainly
ClassificationWitness ==
    /\ Returned
    /\ root.layout = "Tree"
    /\ Len(Outcomes(1)) = 4
    /\ \E i \in 1..Len(log) : log[i].op = "read_ok" /\ log[i].field = "right"
    /\ \E i \in 1..Len(log) : log[i].op = "plain" /\ log[i].field = "flags"

\* C10 (default depth): a pointer_print call and a
\* pointer_print_with_depth(5) call, and a print_with_pointer_reading call
\* and a pointer_print call, made one after the other on the same data in
\* either order, have printed the same lines and made the same reads.
DefaultDepth ==
    (Returned /\ prev # NoCall) =>
        LET same == out = prev.out /\ Reads = prev.reads
            with5(e, a) == e = "pointer_print_with_depth" /\ a = 5
        IN  /\ (entry = "pointer_print" /\ with5(prev.entry, prev.arg)) => same
            /\ (with5(entry, arg) /\ prev.entry = "pointer_print") => same
            /\ ( /\ entry = "print_with_pointer_reading"
                 /\ prev.entry = "pointer_print" ) => same
            /\ ( /\ entry = "pointer_print"
                 /\ prev.entry = "print_with_pointer_reading" ) => same

\* pointer_print has returned after pointer_print_with_depth(5) on a chain
\* that both depth 4 and depth 6 would print differently
DefaultDepthWitness ==
    /\ Returned
    /\ entry = "pointer_print"
    /\ prev.entry = "pointer_print_with_depth"
    /\ prev.arg = 5
    /\ Len(Ops({"guard"})) = 1
    /\ Len(Ops({"enter"})) = 5

\* C11 (insert before read): whenever a read of address a is pending the
\* address is in the visited set; every read that was made follows the
\* insertion of its address by the same field, and the visited set never
\* loses an address during the traversal.
InsertBeforeRead ==
    /\ (~Idle /\ Top.pc = "read") => AddressOf(Top) \in visited_addresses
    /\ \A i \in 1..Len(log) :
          log[i].op \in {"read_ok", "read_err"} =>
              /\ log[i].addr \in log[i].vis
              /\ i > 1
              /\ log[i - 1].op = "insert"
              /\ log[i - 1].addr = log[i].addr
              /\ log[i - 1].inv = log[i].inv
    /\ \A i \in 1..Len(log) :
          /\ i > 1 => log[i - 1].vis \subseteq log[i].vis
          /\ log[i].vis \subseteq visited_addresses

\* a nested invocation is about to read an address it has just inserted
\* next to an older one
InsertBeforeReadWitness ==
    /\ ~Idle
    /\ Top.pc = "read"
    /\ Top.depth >= 1
    /\ Cardinality(visited_addresses) >= 2

\* an invocation at or past the ceiling is entering
AtCeiling == ~Idle /\ Top.pc = "enter" /\ Top.depth >= max_depth

\* C12 (depth guard): the step of an invocation entered with
\* depth >= max_depth is a bare return: nothing is added to the output
\* (finished lines or the unfinished line), no read is made, the visited
\* set stays as it is and the invocation is gone.
DepthGuardSilent ==
    [][AtCeiling =>
           /\ out' = out
           /\ cur' = cur
           /\ visited_addresses' = visited_addresses
           /\ stack' = SubSeq(stack, 1, Len(stack) - 1)
           /\ ninv' = ninv
           /\ Len(log') = Len(log) + 1
           /\ log'[Len(log')].op = "guard"
           /\ log'[Len(log')].text = ""]_vars

\* the guard has just cut a pointee whose arrow was already printed
DepthGuardWitness ==
    /\ Len(log) >= 2
    /\ log[Len(log)].op = "guard"
    /\ log[Len(log)].depth >= 1
    /\ log[Len(log) - 1].op = "read_ok"
    /\ cur # ""

\* {:#x} of the addresses of the model, written out
HexOf(a) ==
    CASE a = 4096 -> "0x1000" [] a = 8192 -> "0x2000" [] a = 12288 -> "0x3000"
      [] a = 16384 -> "0x4000" [] a = 20480 -> "0x5000" [] a = 24576 -> "0x6000"
      [] a = 28672 -> "0x7000" [] a = 32768 -> "0x8000" [] a = 61440 -> "0xf000"

\* the next field of the innermost invocation is a pointer field whose
\* address is in the visited set
AtVisitedPointer ==
    /\ ~Idle
    /\ Top.pc = "fields"
    /\ Len(Outcomes(Top.inv)) < Len(Declared(root.layout))
    /\ Declared(root.layout)[Len(Outcomes(Top.inv)) + 1][2] = "pointer"
    /\ Top.self.vals[Code(Top)[Top.idx].fld] \in visited_addresses

\* C13 (already-visited short circuit): the step that processes a pointer
\* field whose address is in the visited set prints exactly one line, the
\* notice naming the field and the address in hexadecimal; it makes no
\* read, starts no invocation and leaves the visited set as it is.
VisitedShortCircuit ==
    [][AtVisitedPointer =>
           LET name == Declared(root.layout)[Len(Outcomes(Top.inv)) + 1][1]
               a == Top.self.vals[Code(Top)[Top.idx].fld]
           IN  /\ out' = Append(out, cur \o repeat(Top.depth) \o "  " \o name
                                     \o " → Already visited address "
                                     \o HexOf(a))
               /\ cur' = ""
               /\ visited_addresses' = visited_addresses
               /\ Len(stack') = Len(stack)
               /\ ninv' = ninv
               /\ Len(log') = Len(log) + 1
               /\ log'[Len(log')].op = "visited"
               /\ stack'[Len(stack)].pc = "fields"
               /\ stack'[Len(stack)].idx = Top.idx + 1]_vars

\* a nested invocation has just reported a pointer back to a visited
\* address
VisitedShortCircuitWitness ==
    /\ Len(log) >= 1
    /\ log[Len(log)].op = "visited"
    /\ log[Len(log)].depth >= 1
    /\ log[Len(log)].addr \in visited_addresses

\* C14 (well-formed pointer output, as claimed): in a returned traversal
\* with max_depth >= 1 every printed arrow header is followed by the
\* pointee's block: its type header with an opening brace, and its closing
\* delimiter at the nested indent.
ArrowHasBlock ==
    (Returned /\ max_depth >= 1) =>
        \A i \in 1..Len(log) :
            log[i].op = "read_ok" =>
                /\ i < Len(log)
                /\ log[i + 1].op = "enter"
                /\ log[i + 1].inv = log[i].callee
                /\ log[i + 1].text = " " \o StructOf(root.layout).name \o " {"
                /\ \E j \in (i + 2)..Len(log) :
                      /\ log[j].op = "close"
                      /\ log[j].inv = log[i].callee
                      /\ log[j].text = repeat(log[i].depth + 1) \o "}"

\* C15 (recursion bound): the active invocations are nested at depths
\* 0, 1, 2, ... (the root at 0, one more per pointer hop), none deeper
\* than max_depth, those past their guard strictly below max_depth, at
\* most max_depth + 1 of them; max_depth is the one the call was given.
RecursionBound ==
    /\ \A i \in 1..Len(stack) :
          /\ stack[i].depth = i - 1
          /\ stack[i].depth <= max_depth
          /\ stack[i].pc # "enter" => stack[i].depth < max_depth
    /\ Len(stack) <= max_depth + 1
    /\ \A i \in 1..Len(log) :
          /\ log[i].op # "guard" => log[i].depth < max_depth
          /\ log[i].depth <= max_depth
    /\ entry # "none" => max_depth = (IF arg = NoArg THEN 5 ELSE arg)

\* max_depth + 1 invocations are active, the innermost at the ceiling
RecursionBoundWitness ==
    /\ max_depth >= 3
    /\ Len(stack) = max_depth + 1
    /\ Top.pc = "enter"
    /\ Top.depth = max_depth

\* the addresses held by the pointer fields that are followed
HeldAddresses ==
    LET held(v) == IF v.layout = "Node" THEN {v.vals[2]}
                   ELSE IF v.layout = "Tree" THEN {v.vals[2], v.vals[4]}
                   ELSE {}
    IN  UNION ({held(root)} \cup {held(mem[a]) : a \in AllAddrs})

\* C16 (at most one visit): within one top-level call no address is read
\* twice, the fields of the pointee at an address are printed at most
\* once, and there are no more reads than addresses held by pointer fields.
AtMostOnce ==
    /\ \A i \in 1..Len(Reads), j \in 1..Len(Reads) :
          Reads[i] = Reads[j] => i = j
    /\ \A a \in AllAddrs : Visits(a) <= 1
    /\ Len(Reads) <= Cardinality(HeldAddresses)
    /\ \A i \in 1..Len(Reads) : Reads[i] \in HeldAddresses

\* a Tree whose two pointers hold the same address: one read, one notice,
\* and the pointee's own pointers met visited addresses again
AtMostOnceWitness ==
    /\ Returned
    /\ root = TreeVal(Addr(2), Addr(2))
    /\ Visits(Addr(2)) = 1
    /\ Len(Ops({"visited"})) >= 2
    /\ Len(Reads) <= 2

\* C17 (visited set is sticky): an address that was inserted stays in the
\* visited set for the rest of the call, whether its read succeeded, failed
\* or its pointee was cut by the depth guard; the only read of it is the
\* one right after its insertion, and every later pointer field holding it,
\* at any depth, gets the "already visited" notice.
VisitedSticky ==
    \A i \in 1..Len(log) :
        log[i].op = "insert" =>
            /\ log[i].addr \in visited_addresses
            /\ \A j \in (i + 1)..Len(log) :
                  /\ log[i].addr \in log[j].vis
                  /\ (log[j].addr = log[i].addr /\ j > i + 1) =>
                        log[j].op = "visited"
                  /\ (log[j].addr = log[i].addr /\ j = i + 1) =>
                        log[j].op \in {"read_ok", "read_err"}

\* the read of an address failed in a nested invocation, and a later
\* holder of that address, at another depth, got the notice
VisitedStickyWitness ==
    /\ Returned
    /\ \E i \in 1..Len(log), j \in 1..Len(log) :
          /\ i < j
          /\ log[i].op = "read_err"
          /\ log[i].depth >= 1
          /\ log[j].op = "visited"
          /\ log[j].addr = log[i].addr
          /\ log[j].depth # log[i].depth

\* a pointee was cut by the depth guard, and a later holder of its address
\* got the notice
VisitedStickyAfterGuard ==
    /\ Returned
    /\ \E i \in 1..Len(log), j \in 1..Len(log) :
          /\ i + 1 < j
          /\ log[i].op = "read_ok"
          /\ log[i + 1].op = "guard"
          /\ log[j].op = "visited"
          /\ log[j].addr = log[i].addr

====
